---- MODULE Spec2Model ----
(***************************************************************************)
(* A model of the Socket.io chat server: the in-memory registries `users`  *)
(* and `typingUsers`, the socket event handlers (user_join, send_message,  *)
(* typing, private_message, disconnect), the Message collection and the    *)
(* GET /api/messages route.                                                *)
(*                                                                         *)
(* Node runs every handler to its first await without interleaving; an     *)
(* async handler is therefore two steps of the model: the synchronous part *)
(* up to `await Message.create(...)`, and the resumption after the         *)
(* database answered.  The insert is the database's own step between the   *)
(* two; a failed create is one step with the catch block that sees it.     *)
(***************************************************************************)
EXTENDS Integers, Sequences, FiniteSets, TLC

(***************************************************************************)
(* Bounds of the model.                                                    *)
(***************************************************************************)
MaxEvents == 3         \* socket events the clients send, in all
MaxSends == 2          \* send_message + private_message events among them
MaxClock == 1          \* Date.now() returns the values 0..MaxClock
MaxBulk == 204         \* largest collection the history route is run on

(***************************************************************************)
(* Program constants.                                                      *)
(***************************************************************************)
DefaultLimit == 50
MaxLimit == 200

(***************************************************************************)
(* JavaScript values.  undefined and null are kept apart: `??` and the     *)
(* schema defaults tell them apart from "" and from each other.            *)
(***************************************************************************)
Undefined == "<undefined>"
Null == "<null>"

Nullish(v) == v \in {Undefined, Null}

\* a ?? b
Coalesce(a, b) == IF Nullish(a) THEN b ELSE a

\* the falsy values among the strings, undefined and null
Falsy(v) == v \in {Undefined, Null, ""}

\* a || b
OrElse(a, b) == IF Falsy(a) THEN b ELSE a

(***************************************************************************)
(* Connections.  socket.id is assigned by the transport and never reused;  *)
(* Ghost is an id no connection ever has.                                  *)
(***************************************************************************)
Conns == {"c1", "c2", "c3"}
\* the connections that send events; "c3" only connects and disconnects
Senders == {"c1", "c2"}
Ghost == "ghost"

VARIABLES
    sockets,      \* [Conns -> {"idle", "connected", "disconnected"}]
    users,        \* the object `users`: socket.id -> {username, id}
    typingUsers,  \* the object `typingUsers`: socket.id -> username
    store,        \* the Message collection, in insertion order
    inflight,     \* the Message.create calls awaited by a handler
    nextId,       \* source of fresh _id values
    now,          \* the last value Date.now() returned
    emitted,      \* what the last step of the server emitted, in order
    delivered,    \* every receive_message, private_message and user_left
                  \* emission so far, in order, with its receivers
    errors,       \* the _id of the documents whose failure a handler logged
    response,     \* the HTTP answer the last step of the server sent, with
                  \* its request
    alive,        \* the server process is running
    events,       \* the socket events received so far
    typed,        \* the sockets that were ever entered in typingUsers
    received,     \* the socket event the last step of the server handled
    lastUserList, \* the payload of the last user_list emission
    lastTypingList \* the payload of the last typing_users emission

vars == <<sockets, users, typingUsers, store, inflight, nextId, now,
          emitted, delivered, errors, response, alive, events,
          typed, received, lastUserList, lastTypingList>>

Connected == {c \in Conns : sockets[c] = "connected"}

Range(f) == {f[x] : x \in DOMAIN f}

\* {}
EmptyObject == [k \in {} |-> k]

\* delete obj[key]
Delete(obj, key) == [k \in DOMAIN obj \ {key} |-> obj[k]]

\* obj[key] ??= value: an entry that exists is kept
PutIfAbsent(obj, key, value) ==
    [k \in DOMAIN obj \cup {key} |->
        IF k \in DOMAIN obj THEN obj[k] ELSE value]

\* obj[key] = value
Put(obj, key, value) == [k \in DOMAIN obj \cup {key} |->
                            IF k = key THEN value ELSE obj[k]]

\* Object.values(users): the entries carry their id, so the list is
\* determined, up to its order, by the set of its entries.
UserList(u) == Range(u)

\* Object.values(typingUsers): a list of names, the keys are lost.  Up to its
\* order the list is the number of times each name occurs.
TypingList(t) == [n \in Range(t) |-> Cardinality({c \in DOMAIN t : t[c] = n})]

(***************************************************************************)
(* Emission.  io.emit reaches every connected socket; socket.emit reaches  *)
(* the socket if it is still connected; socket.to(room).emit reaches the   *)
(* sockets of the room except the emitting one.  The only rooms are the    *)
(* ones each socket joins under its own id.                                *)
(***************************************************************************)
\* `online`: the sockets connected when the emission is made
IoEmit(online, ev, payload) ==
    [event |-> ev, payload |-> payload, rcpts |-> online]

SocketEmit(online, c, ev, payload) ==
    [event |-> ev, payload |-> payload, rcpts |-> {c} \cap online]

SocketToEmit(online, c, room, ev, payload) ==
    [event |-> ev, payload |-> payload, rcpts |-> ({room} \cap online) \ {c}]

(***************************************************************************)
(* The inputs.                                                             *)
(***************************************************************************)
\* user_join takes a string, or an object with a username field
JoinPayloads ==
    { [isString |-> TRUE, string |-> "Alice", username |-> Undefined],
      [isString |-> FALSE, string |-> Undefined, username |-> "Bob"],
      [isString |-> FALSE, string |-> Undefined, username |-> Undefined] }

\* send_message takes { message, text, room }, each possibly missing
PublicPayloads ==
    { [message |-> "hi", text |-> Undefined, room |-> Undefined],
      [message |-> Null, text |-> "yo", room |-> ""],
      [message |-> "", text |-> "yo", room |-> Null],
      [message |-> Undefined, text |-> Undefined, room |-> Undefined] }

\* private_message takes { to, message }
PrivatePayloads ==
    { [to |-> "c1", message |-> "psst"],
      [to |-> Ghost, message |-> Undefined] }

\* the values of Date.now()
Times == 0..MaxClock

(***************************************************************************)
(* The Message model.                                                      *)
(***************************************************************************)
\* a schema default: it replaces undefined, and only undefined
SchemaDefault(v, d) == IF v = Undefined THEN d ELSE v

\* new Message(fields): the document with its _id and its defaults
MessageSchema(fields, id, time) ==
    [_id |-> id,
     room |-> SchemaDefault(fields.room, "global"),
     text |-> fields.text,
     sender |-> SchemaDefault(fields.sender, "Anonymous"),
     senderId |-> fields.senderId,
     to |-> SchemaDefault(fields.to, Null),
     isPrivate |-> fields.isPrivate,
     createdAt |-> time]

\* text: { type: String, required: true }: undefined, null and the empty
\* string fail the validation
Validates(doc) == doc.text \notin {Undefined, Null, ""}

\* the sender is never looked up
SenderNameAnonymous(c) == "Anonymous"

\* users[socket.id]?.username || 'Anonymous'
SenderName(c) ==
    IF c \in DOMAIN users THEN OrElse(users[c].username, "Anonymous")
    ELSE "Anonymous"

\* no HTTP answer was sent by the last step
NoResponse == [status |-> 0]

\* the last step handled no socket event
NoEvent == [event |-> "none", socket |-> "none"]

\* socket.on(ev, ...) of socket c is called
On(ev, c) == [event |-> ev, socket |-> c]

\* the payload of the last emission of event `ev` in `seq`, `before` when
\* there is none
LastEmitted(seq, ev, before) ==
    LET at == {i \in DOMAIN seq : seq[i].event = ev}
    IN  IF at = {} THEN before
        ELSE seq[CHOOSE i \in at : \A j \in at : j <= i].payload

Init ==
    /\ sockets = [c \in Conns |-> "idle"]
    /\ users = EmptyObject
    /\ typingUsers = EmptyObject
    /\ store = <<>>
    /\ inflight = {}
    /\ nextId = 1
    /\ now = 0
    /\ emitted = <<>>
    /\ delivered = <<>>
    /\ errors = {}
    /\ response = NoResponse
    /\ alive = TRUE
    /\ events = 0
    /\ typed = {}
    /\ received = NoEvent
    /\ lastUserList = UserList(EmptyObject)
    /\ lastTypingList = TypingList(EmptyObject)

(***************************************************************************)
(* io.on('connection'): a client connects.                                 *)
(***************************************************************************)
Connect(c) ==
    /\ alive
    /\ sockets[c] = "idle"
    /\ sockets' = [sockets EXCEPT ![c] = "connected"]
    /\ emitted' = <<>>
    /\ response' = NoResponse
    /\ UNCHANGED <<typed, events, users, typingUsers, store, inflight, nextId, now,
                   delivered, errors, alive>>
    /\ received' = NoEvent
    /\ lastUserList' = LastEmitted(emitted', "user_list", lastUserList)
    /\ lastTypingList' = LastEmitted(emitted', "typing_users", lastTypingList)

(***************************************************************************)
(* socket.on('user_join')                                                  *)
(***************************************************************************)
\* typeof payload === 'string' ? payload : payload?.username
JoinName(payload) ==
    IF payload.isString THEN payload.string ELSE payload.username

\* the handler broadcasts the list before it writes the entry
UserJoinStaleList(c, payload) ==
    LET username == JoinName(payload)
        entry == [username |-> username, id |-> c]
    IN  /\ alive
        /\ sockets[c] = "connected"
        /\ users' = Put(users, c, entry)
        /\ emitted' = << IoEmit(Connected, "user_list", UserList(users)),
                         IoEmit(Connected, "user_joined", entry) >>
        /\ response' = NoResponse
        /\ events < MaxEvents
        /\ events' = events + 1
        /\ UNCHANGED <<typed, sockets, typingUsers, store, inflight, nextId, now,
                       delivered, errors, alive>>
        /\ received' = On("user_join", c)
        /\ lastUserList' = LastEmitted(emitted', "user_list", lastUserList)
        /\ lastTypingList' = LastEmitted(emitted', "typing_users", lastTypingList)

UserJoin(c, payload) ==
    LET username == JoinName(payload)
        entry == [username |-> username, id |-> c]
    IN  /\ alive
        /\ sockets[c] = "connected"
        /\ users' = Put(users, c, entry)
        /\ emitted' = << IoEmit(Connected, "user_list", UserList(users')),
                         IoEmit(Connected, "user_joined", entry) >>
        /\ response' = NoResponse
        /\ events < MaxEvents
        /\ events' = events + 1
        /\ UNCHANGED <<typed, sockets, typingUsers, store, inflight, nextId, now,
                       delivered, errors, alive>>
        /\ received' = On("user_join", c)
        /\ lastUserList' = LastEmitted(emitted', "user_list", lastUserList)
        /\ lastTypingList' = LastEmitted(emitted', "typing_users", lastTypingList)

(***************************************************************************)
(* socket.on('typing')                                                     *)
(***************************************************************************)
\* the handler broadcasts only when typingUsers has changed
TypingOnChange(c, isTyping) ==
    /\ alive
    /\ sockets[c] = "connected"
    /\ IF c \in DOMAIN users
       THEN /\ typingUsers' = IF isTyping
                              THEN Put(typingUsers, c, users[c].username)
                              ELSE Delete(typingUsers, c)
            /\ typed' = IF isTyping THEN typed \cup {c} ELSE typed
            /\ emitted' = IF typingUsers' = typingUsers THEN <<>>
                          ELSE << IoEmit(Connected, "typing_users",
                                         TypingList(typingUsers')) >>
       ELSE /\ typingUsers' = typingUsers
            /\ typed' = typed
            /\ emitted' = <<>>
    /\ response' = NoResponse
    /\ events < MaxEvents
    /\ events' = events + 1
    /\ UNCHANGED <<sockets, users, store, inflight, nextId, now,
                   delivered, errors, alive>>
    /\ received' = On("typing", c)
    /\ lastUserList' = LastEmitted(emitted', "user_list", lastUserList)
    /\ lastTypingList' = LastEmitted(emitted', "typing_users", lastTypingList)

\* the handler without `if (users[socket.id])`
TypingUnguarded(c, isTyping) ==
    /\ alive
    /\ sockets[c] = "connected"
    /\ typingUsers' = IF isTyping
                      THEN Put(typingUsers, c,
                               IF c \in DOMAIN users THEN users[c].username
                               ELSE Undefined)
                      ELSE Delete(typingUsers, c)
    /\ typed' = IF isTyping THEN typed \cup {c} ELSE typed
    /\ emitted' = << IoEmit(Connected, "typing_users",
                             TypingList(typingUsers')) >>
    /\ response' = NoResponse
    /\ events < MaxEvents
    /\ events' = events + 1
    /\ UNCHANGED <<sockets, users, store, inflight, nextId, now,
                   delivered, errors, alive>>
    /\ received' = On("typing", c)
    /\ lastUserList' = LastEmitted(emitted', "user_list", lastUserList)
    /\ lastTypingList' = LastEmitted(emitted', "typing_users", lastTypingList)

Typing(c, isTyping) ==
    /\ alive
    /\ sockets[c] = "connected"
    /\ IF c \in DOMAIN users
       THEN /\ typingUsers' = IF isTyping
                              THEN Put(typingUsers, c, users[c].username)
                              ELSE Delete(typingUsers, c)
            /\ typed' = IF isTyping THEN typed \cup {c} ELSE typed
            /\ emitted' = << IoEmit(Connected, "typing_users",
                                     TypingList(typingUsers')) >>
       ELSE /\ typingUsers' = typingUsers
            /\ typed' = typed
            /\ emitted' = <<>>
    /\ response' = NoResponse
    /\ events < MaxEvents
    /\ events' = events + 1
    /\ UNCHANGED <<sockets, users, store, inflight, nextId, now,
                   delivered, errors, alive>>
    /\ received' = On("typing", c)
    /\ lastUserList' = LastEmitted(emitted', "user_list", lastUserList)
    /\ lastTypingList' = LastEmitted(emitted', "typing_users", lastTypingList)

(***************************************************************************)
(* socket.on('disconnect').  Socket.io has taken the socket out of the     *)
(* namespace before the handler runs: io.emit no longer reaches it.        *)
(***************************************************************************)
\* the handler without `delete typingUsers[socket.id]`
DisconnectKeepsTyping(c) ==
    LET online == Connected \ {c}
        left == IF c \in DOMAIN users
                THEN << IoEmit(online, "user_left",
                               [username |-> users[c].username, id |-> c]) >>
                ELSE <<>>
    IN  /\ alive
        /\ sockets[c] = "connected"
        /\ sockets' = [sockets EXCEPT ![c] = "disconnected"]
        /\ users' = Delete(users, c)
        /\ emitted' = left \o
              << IoEmit(online, "user_list", UserList(users')),
                 IoEmit(online, "typing_users", TypingList(typingUsers)) >>
        /\ delivered' = delivered \o left
        /\ response' = NoResponse
        /\ events < MaxEvents
        /\ events' = events + 1
        /\ UNCHANGED <<typed, typingUsers, store, inflight, nextId, now,
                       errors, alive>>
        /\ received' = On("disconnect", c)
        /\ lastUserList' = LastEmitted(emitted', "user_list", lastUserList)
        /\ lastTypingList' = LastEmitted(emitted', "typing_users", lastTypingList)

Disconnect(c) ==
    LET online == Connected \ {c}
        left == IF c \in DOMAIN users
                THEN << IoEmit(online, "user_left",
                               [username |-> users[c].username, id |-> c]) >>
                ELSE <<>>
    IN  /\ alive
        /\ sockets[c] = "connected"
        /\ sockets' = [sockets EXCEPT ![c] = "disconnected"]
        /\ users' = Delete(users, c)
        /\ typingUsers' = Delete(typingUsers, c)
        /\ emitted' = left \o
              << IoEmit(online, "user_list", UserList(users')),
                 IoEmit(online, "typing_users", TypingList(typingUsers')) >>
        /\ delivered' = delivered \o left
        /\ response' = NoResponse
        /\ events < MaxEvents
        /\ events' = events + 1
        /\ UNCHANGED <<typed, store, inflight, nextId, now, errors, alive>>
        /\ received' = On("disconnect", c)
        /\ lastUserList' = LastEmitted(emitted', "user_list", lastUserList)
        /\ lastTypingList' = LastEmitted(emitted', "typing_users", lastTypingList)

(***************************************************************************)
(* socket.on('send_message'), up to `await Message.create(...)`.           *)
(* Mongoose builds the document, with its _id and createdAt, when create   *)
(* is called; the insert is the database's step.  `time` is what           *)
(* Date.now() returns: the clock is read nowhere else, it does not run     *)
(* backwards, and two reads may return the same millisecond.               *)
(***************************************************************************)
\* messageData?.message ?? messageData?.text ?? ''
MessageText(messageData) ==
    Coalesce(messageData.message, Coalesce(messageData.text, ""))

\* messageData?.room || 'global'
MessageRoomOrElse(messageData) == OrElse(messageData.room, "global")

\* messageData?.room ?? 'global'
MessageRoom(messageData) == Coalesce(messageData.room, "global")

PublicMessage(c, messageData) ==
    [room |-> MessageRoom(messageData),
     text |-> MessageText(messageData),
     sender |-> SenderName(c),
     senderId |-> c,
     to |-> Null,
     isPrivate |-> FALSE]

SendMessage(c, messageData, time) ==
    LET doc == MessageSchema(PublicMessage(c, messageData), nextId, time)
    IN  /\ alive
        /\ sockets[c] = "connected"
        /\ nextId <= MaxSends
        /\ nextId' = nextId + 1
        /\ time >= now
        /\ now' = time
        /\ inflight' = inflight \cup
              {[event |-> "send_message", socket |-> c, doc |-> doc,
                phase |-> "awaiting"]}
        /\ emitted' = <<>>
        /\ response' = NoResponse
        /\ events < MaxEvents
        /\ events' = events + 1
        /\ UNCHANGED <<typed, sockets, users, typingUsers, store, delivered,
                       errors, alive>>
        /\ received' = On("send_message", c)
        /\ lastUserList' = LastEmitted(emitted', "user_list", lastUserList)
        /\ lastTypingList' = LastEmitted(emitted', "typing_users", lastTypingList)

(***************************************************************************)
(* socket.on('private_message'), up to `await Message.create(...)`.        *)
(***************************************************************************)
PrivateMessageData(c, payload) ==
    [room |-> Null,
     text |-> payload.message,
     sender |-> SenderName(c),
     senderId |-> c,
     to |-> payload.to,
     isPrivate |-> TRUE]

PrivateMessage(c, payload, time) ==
    LET doc == MessageSchema(PrivateMessageData(c, payload), nextId, time)
    IN  /\ alive
        /\ sockets[c] = "connected"
        /\ nextId <= MaxSends
        /\ nextId' = nextId + 1
        /\ time >= now
        /\ now' = time
        /\ inflight' = inflight \cup
              {[event |-> "private_message", socket |-> c, doc |-> doc,
                phase |-> "awaiting"]}
        /\ emitted' = <<>>
        /\ response' = NoResponse
        /\ events < MaxEvents
        /\ events' = events + 1
        /\ UNCHANGED <<typed, sockets, users, typingUsers, store, delivered,
                       errors, alive>>
        /\ received' = On("private_message", c)
        /\ lastUserList' = LastEmitted(emitted', "user_list", lastUserList)
        /\ lastTypingList' = LastEmitted(emitted', "typing_users", lastTypingList)

(***************************************************************************)
(* Message.create: the document is validated and inserted, and the promise *)
(* resolves with it; or the validation or the database fails, nothing is   *)
(* inserted and the promise rejects.  A rejection is seen by nothing but   *)
(* the handler that awaits it: it is one step with the handler's catch.    *)
(***************************************************************************)
Settle(op, phase) == (inflight \ {op}) \cup {[op EXCEPT !.phase = phase]}

\* the promise resolves with a document that was never inserted
CreateResolvesUnsaved(op) ==
    /\ op.phase = "awaiting"
    /\ Validates(op.doc)
    /\ inflight' = Settle(op, "saved")
    /\ UNCHANGED <<typed, events, sockets, users, typingUsers, store, nextId,
                   now, emitted, delivered, errors, response, alive>>
    /\ received' = received
    /\ lastUserList' = LastEmitted(emitted', "user_list", lastUserList)
    /\ lastTypingList' = LastEmitted(emitted', "typing_users", lastTypingList)

CreateResolves(op) ==
    /\ op.phase = "awaiting"
    /\ Validates(op.doc)
    /\ store' = Append(store, op.doc)
    /\ inflight' = Settle(op, "saved")
    /\ UNCHANGED <<typed, events, sockets, users, typingUsers, nextId, now, emitted,
                   delivered, errors, response, alive>>
    /\ received' = received
    /\ lastUserList' = LastEmitted(emitted', "user_list", lastUserList)
    /\ lastTypingList' = LastEmitted(emitted', "typing_users", lastTypingList)

(***************************************************************************)
(* The handlers after the await.  The handler runs on after its socket has *)
(* disconnected.                                                           *)
(***************************************************************************)
\* the payload names the sender as `users` names it when the payload is built
PublicPayloadNamedLate(saved) ==
    [id |-> saved._id,
     sender |-> IF saved.senderId \in DOMAIN users
                THEN OrElse(users[saved.senderId].username, "Anonymous")
                ELSE "Anonymous",
     senderId |-> saved.senderId,
     message |-> saved.text,
     room |-> saved.room,
     isPrivate |-> saved.isPrivate,
     timestamp |-> saved.createdAt]

PublicPayload(saved) ==
    [id |-> saved._id,
     sender |-> saved.sender,
     senderId |-> saved.senderId,
     message |-> saved.text,
     room |-> saved.room,
     isPrivate |-> saved.isPrivate,
     timestamp |-> saved.createdAt]

PrivatePayload(saved) ==
    [id |-> saved._id,
     sender |-> saved.sender,
     senderId |-> saved.senderId,
     to |-> saved.to,
     message |-> saved.text,
     isPrivate |-> saved.isPrivate,
     timestamp |-> saved.createdAt]

\* io.emit('receive_message', payload)
PublicFanout(op) ==
    << IoEmit(Connected, "receive_message", PublicPayload(op.doc)) >>

\* io.emit('private_message', payload)
PrivateFanoutToAll(op) ==
    << IoEmit(Connected, "private_message", PrivatePayload(op.doc)) >>

\* socket.to(to).emit('private_message', payload);
\* socket.emit('private_message', payload)
PrivateFanout(op) ==
    << SocketToEmit(Connected, op.socket, op.doc.to, "private_message",
                    PrivatePayload(op.doc)),
       SocketEmit(Connected, op.socket, "private_message",
                  PrivatePayload(op.doc)) >>

SendMessageResume(op) ==
    /\ alive
    /\ op.event = "send_message"
    /\ op.phase = "saved"
    /\ inflight' = inflight \ {op}
    /\ emitted' = PublicFanout(op)
    /\ delivered' = delivered \o emitted'
    /\ response' = NoResponse
    /\ UNCHANGED <<typed, events, sockets, users, typingUsers, store, nextId, now, errors,
                   alive>>
    /\ received' = NoEvent
    /\ lastUserList' = LastEmitted(emitted', "user_list", lastUserList)
    /\ lastTypingList' = LastEmitted(emitted', "typing_users", lastTypingList)

PrivateMessageResume(op) ==
    /\ alive
    /\ op.event = "private_message"
    /\ op.phase = "saved"
    /\ inflight' = inflight \ {op}
    /\ emitted' = PrivateFanout(op)
    /\ delivered' = delivered \o emitted'
    /\ response' = NoResponse
    /\ UNCHANGED <<typed, events, sockets, users, typingUsers, store, nextId, now, errors,
                   alive>>
    /\ received' = NoEvent
    /\ lastUserList' = LastEmitted(emitted', "user_list", lastUserList)
    /\ lastTypingList' = LastEmitted(emitted', "typing_users", lastTypingList)

\* the error is not caught: the process exits
Uncaught(running) == FALSE

\* catch (err) { console.error(...) }: the process goes on
Caught(running) == running

\* the catch block logs, then broadcasts what it failed to save
SendMessageCatchFallsThrough(op) ==
    /\ alive
    /\ op.event = "send_message"
    /\ op.phase = "awaiting"
    /\ inflight' = inflight \ {op}
    /\ errors' = errors \cup {op.doc._id}
    /\ alive' = Caught(alive)
    /\ emitted' = PublicFanout(op)
    /\ delivered' = delivered \o emitted'
    /\ response' = NoResponse
    /\ UNCHANGED <<typed, events, sockets, users, typingUsers, store, nextId,
                   now>>
    /\ received' = NoEvent
    /\ lastUserList' = LastEmitted(emitted', "user_list", lastUserList)
    /\ lastTypingList' = LastEmitted(emitted', "typing_users", lastTypingList)

SendMessageCatch(op) ==
    /\ alive
    /\ op.event = "send_message"
    /\ op.phase = "awaiting"
    /\ inflight' = inflight \ {op}
    /\ errors' = errors \cup {op.doc._id}
    /\ alive' = Caught(alive)
    /\ emitted' = <<>>
    /\ response' = NoResponse
    /\ UNCHANGED <<typed, events, sockets, users, typingUsers, store, nextId, now,
                   delivered>>
    /\ received' = NoEvent
    /\ lastUserList' = LastEmitted(emitted', "user_list", lastUserList)
    /\ lastTypingList' = LastEmitted(emitted', "typing_users", lastTypingList)

PrivateMessageCatch(op) ==
    /\ alive
    /\ op.event = "private_message"
    /\ op.phase = "awaiting"
    /\ inflight' = inflight \ {op}
    /\ errors' = errors \cup {op.doc._id}
    /\ alive' = Caught(alive)
    /\ emitted' = <<>>
    /\ response' = NoResponse
    /\ UNCHANGED <<typed, events, sockets, users, typingUsers, store, nextId, now,
                   delivered>>
    /\ received' = NoEvent
    /\ lastUserList' = LastEmitted(emitted', "user_list", lastUserList)
    /\ lastTypingList' = LastEmitted(emitted', "typing_users", lastTypingList)

(***************************************************************************)
(* app.get('/api/messages').  A query parameter is a string; one that is   *)
(* not given is undefined, which parseInt reads as the string "undefined". *)
(* Strings that parseInt reads are sequences of characters here.           *)
(***************************************************************************)
NotGiven == <<"u", "n", "d", "e", "f", "i", "n", "e", "d">>

Digits == <<"0", "1", "2", "3", "4", "5", "6", "7", "8", "9">>

IsDigit(ch) == \E d \in 1..10 : Digits[d] = ch

DigitValue(ch) == (CHOOSE d \in 1..10 : Digits[d] = ch) - 1

RECURSIVE SkipSpaces(_)
SkipSpaces(str) ==
    IF str # <<>> /\ Head(str) = " " THEN SkipSpaces(Tail(str)) ELSE str

RECURSIVE ParseDigits(_, _)
ParseDigits(str, acc) ==
    IF str # <<>> /\ IsDigit(Head(str))
    THEN ParseDigits(Tail(str), 10 * acc + DigitValue(Head(str)))
    ELSE acc

\* parseInt(str) for a string without a 0x prefix: leading blanks, a sign,
\* then the longest run of digits; NaN when there is no digit
ParseInt(str) ==
    LET trimmed == SkipSpaces(str)
        signed == trimmed # <<>> /\ Head(trimmed) \in {"+", "-"}
        sign == IF signed /\ Head(trimmed) = "-" THEN -1 ELSE 1
        rest == IF signed THEN Tail(trimmed) ELSE trimmed
    IN  IF rest # <<>> /\ IsDigit(Head(rest))
        THEN [nan |-> FALSE, value |-> sign * ParseDigits(rest, 0)]
        ELSE [nan |-> TRUE, value |-> 0]

\* Math.min(a, b)
MathMin(a, b) == IF a < b THEN a ELSE b

\* Math.min(parseInt(req.query.limit) || 50, 200): NaN and 0 are falsy
HistoryLimit(query) ==
    LET parsed == ParseInt(query.limit)
        given == IF parsed.nan \/ parsed.value = 0 THEN DefaultLimit
                 ELSE parsed.value
    IN  MathMin(given, MaxLimit)

\* req.query.room || 'global'
HistoryRoom(query) == OrElse(query.room, "global")

\* Message.find(room ? { room } : {})
Find(collection, room) ==
    IF Falsy(room) THEN Range(collection)
    ELSE {doc \in Range(collection) : doc.room = room}

\* the permutations of a set of positions
BlockOrders(block) ==
    {f \in [block -> block] : \A i, j \in block : f[i] = f[j] => i = j}

\* seq with the elements at the positions of `block` permuted in each way
RECURSIVE Shuffles(_, _)
Shuffles(seq, blocks) ==
    IF blocks = {} THEN {seq}
    ELSE LET block == CHOOSE b \in blocks : TRUE
         IN  UNION { Shuffles([i \in DOMAIN seq |->
                                  IF i \in block THEN seq[f[i]] ELSE seq[i]],
                              blocks \ {block})
                     : f \in BlockOrders(block) }

\* .sort({ createdAt: -1 }): newest first, and the documents with equal
\* createdAt in any order.  `rank` counts the documents that come before a
\* document when equal createdAt are ordered by _id; the other orders permute
\* the blocks of equal createdAt.
SortDescending(docs) ==
    LET rank == [d \in docs |->
                    Cardinality({e \in docs :
                        \/ e.createdAt > d.createdAt
                        \/ e.createdAt = d.createdAt /\ e._id > d._id})]
        sorted == [i \in 1..Cardinality(docs) |->
                      CHOOSE d \in docs : rank[d] = i - 1]
        block(i) == {j \in DOMAIN sorted :
                        sorted[j].createdAt = sorted[i].createdAt}
        blocks == {block(i) : i \in DOMAIN sorted}
    IN  Shuffles(sorted, {b \in blocks : Cardinality(b) > 1})

\* cursor.limit(n): the first n documents; a negative n asks for -n
\* documents in a single batch, and 0 for all of them
CursorLimit(seq, n) ==
    IF n = 0 THEN seq
    ELSE SubSeq(seq, 1, MathMin(IF n < 0 THEN -n ELSE n, Len(seq)))

\* the documents as the cursor returned them, newest first
NotReversed(seq) == seq

\* docs.reverse()
Reverse(seq) == [i \in 1..Len(seq) |-> seq[Len(seq) + 1 - i]]

\* the bodies the route may answer with
HistoryBodies(collection, query) ==
    LET found == Find(collection, HistoryRoom(query))
    IN  { Reverse(CursorLimit(docs, HistoryLimit(query)))
          : docs \in SortDescending(found) }

HistoryQuery(query) ==
    /\ alive
    /\ \E body \in HistoryBodies(store, query) :
          response' = [status |-> 200, body |-> body, query |-> query]
    /\ emitted' = <<>>
    /\ UNCHANGED <<typed, sockets, users, typingUsers, store, inflight, nextId, now,
                   delivered, errors, alive, events>>
    /\ received' = NoEvent
    /\ lastUserList' = LastEmitted(emitted', "user_list", lastUserList)
    /\ lastTypingList' = LastEmitted(emitted', "typing_users", lastTypingList)

\* catch (err) { res.status(500).json(...) }: the database failed
HistoryQueryFails(query) ==
    /\ alive
    /\ response' = [status |-> 500]
    /\ emitted' = <<>>
    /\ UNCHANGED <<typed, sockets, users, typingUsers, store, inflight, nextId, now,
                   delivered, errors, alive, events>>
    /\ received' = NoEvent
    /\ lastUserList' = LastEmitted(emitted', "user_list", lastUserList)
    /\ lastTypingList' = LastEmitted(emitted', "typing_users", lastTypingList)

\* the requests made while the sockets are served
Requests ==
    { [room |-> "global", limit |-> <<"1">>],
      [room |-> "", limit |-> NotGiven] }

Next ==
    \/ \E c \in Conns : Connect(c)
    \/ \E c \in Senders, payload \in JoinPayloads : UserJoin(c, payload)
    \/ \E c \in Senders, isTyping \in BOOLEAN : Typing(c, isTyping)
    \/ \E c \in Conns : Disconnect(c)
    \/ \E c \in Senders, messageData \in PublicPayloads, time \in Times :
          SendMessage(c, messageData, time)
    \/ \E c \in Senders, payload \in PrivatePayloads, time \in Times :
          PrivateMessage(c, payload, time)
    \/ \E op \in inflight : CreateResolves(op)
    \/ \E op \in inflight : SendMessageResume(op)
    \/ \E op \in inflight : PrivateMessageResume(op)
    \/ \E op \in inflight : SendMessageCatch(op)
    \/ \E op \in inflight : PrivateMessageCatch(op)
    \/ \E query \in Requests : HistoryQuery(query)

Spec == Init /\ [][Next]_vars

(***************************************************************************)
(* The history route on a collection left by earlier runs of the server.   *)
(* The collection outlives the process: the server may start on any number *)
(* of documents.  Document 3 is of room "dev", document 4 is private, the  *)
(* others are of room "global"; the two oldest documents were created in   *)
(* the same millisecond, and so were the two newest.                       *)
(***************************************************************************)
BulkTime(i, n) == IF i = 1 THEN 1 ELSE IF i = n /\ n > 5 THEN n - 2 ELSE i - 1

BulkDoc(i, n) ==
    IF i = 4
    THEN MessageSchema([room |-> Null, text |-> "psst", sender |-> "Alice",
                        senderId |-> "c2", to |-> "c1", isPrivate |-> TRUE],
                       i, BulkTime(i, n))
    ELSE MessageSchema([room |-> IF i = 3 THEN "dev" ELSE "global",
                        text |-> "hi", sender |-> "Anonymous",
                        senderId |-> "c1", to |-> Null, isPrivate |-> FALSE],
                       i, BulkTime(i, n))

BulkStore(n) == [i \in 1..n |-> BulkDoc(i, n)]

BulkSizes == {0, 1, 2, 5, DefaultLimit + 3, MaxBulk}

HistoryRooms == {Undefined, "", "dev", "lobby"}

HistoryLimits ==
    { NotGiven, <<"0">>, <<"1">>, <<"2">>, <<" ", "5", "1", "p", "x">>,
      <<"a", "b", "c">>, <<"2", "0", "1">>, <<"-", "2", "0", "1">> }

HistoryRequests ==
    { [room |-> r, limit |-> l] : r \in HistoryRooms, l \in HistoryLimits }

InitHistory ==
    /\ sockets = [c \in Conns |-> "idle"]
    /\ users = EmptyObject
    /\ typingUsers = EmptyObject
    /\ store \in {BulkStore(n) : n \in BulkSizes}
    /\ inflight = {}
    /\ nextId = Len(store) + 1
    /\ now = IF store = <<>> THEN 0 ELSE store[Len(store)].createdAt
    /\ emitted = <<>>
    /\ delivered = <<>>
    /\ errors = {}
    /\ response = NoResponse
    /\ alive = TRUE
    /\ events = 0
    /\ typed = {}
    /\ received = NoEvent
    /\ lastUserList = UserList(EmptyObject)
    /\ lastTypingList = TypingList(EmptyObject)

\* one request on each collection: the route reads the collection and
\* changes nothing, a second request finds what the first one found
NextHistory ==
    \/ \E query \in HistoryRequests :
          response = NoResponse /\ HistoryQuery(query)
    \/ \E query \in HistoryRequests :
          response = NoResponse /\ HistoryQueryFails(query)

SpecHistory == InitHistory /\ [][NextHistory]_vars

(***************************************************************************)
(* Properties.                                                             *)
(***************************************************************************)
MessageEvents == {"receive_message", "private_message"}

\* the user_left emissions of a sequence
LeavesIn(seq) ==
    {seq[i] : i \in {j \in DOMAIN seq : seq[j].event = "user_left"}}

\* the emissions of a sequence that carry a message
MessagesIn(seq) ==
    {seq[i] : i \in {j \in DOMAIN seq : seq[j].event \in MessageEvents}}

\* the emissions so far that carry a message
MessagesDelivered == MessagesIn(delivered) \cup MessagesIn(emitted)

\* the payload of emission e is the projection of document doc
ProjectionOf(e, doc) ==
    /\ e.payload.id = doc._id
    /\ e.payload.sender = doc.sender
    /\ e.payload.senderId = doc.senderId
    /\ e.payload.message = doc.text
    /\ e.payload.isPrivate = doc.isPrivate
    /\ e.payload.timestamp = doc.createdAt
    /\ IF e.event = "receive_message"
       THEN e.payload.room = doc.room /\ ~doc.isPrivate
       ELSE e.payload.to = doc.to /\ doc.isPrivate

\* C1: every receive_message and private_message emitted so far, to whatever
\* receivers, carries the projection of a document that is already in the
\* collection: id, sender, senderId, text, room or to, isPrivate, and
\* timestamp = createdAt.
C1_PersistBeforeDelivery ==
    \A e \in MessagesDelivered :
        \E i \in DOMAIN store : ProjectionOf(e, store[i])

\* a public and a private message have both reached a connection
C1_Witness ==
    /\ \E e \in MessagesDelivered :
          e.event = "receive_message" /\ e.rcpts # {}
    /\ \E e \in MessagesDelivered :
          e.event = "private_message" /\ e.rcpts # {}

\* C2: once the create of a send_message or private_message event has failed
\* (its _id is logged), no emission ever carries that message, the collection
\* never holds it, no answer of the history route lists it, and the server
\* runs on.
C2_FailedSendLeavesNoTrace ==
    \A id \in errors :
        /\ \A e \in MessagesDelivered : e.payload.id # id
        /\ \A i \in DOMAIN store : store[i]._id # id
        /\ response.status = 200 =>
              \A i \in DOMAIN response.body : response.body[i]._id # id
        /\ alive

\* the first send failed, the second one was then saved and delivered, and
\* the history was read
C2_Witness ==
    /\ 1 \in errors
    /\ \E e \in MessagesDelivered : e.payload.id = 2 /\ e.rcpts # {}
    /\ response.status = 200
    /\ response.body # <<>>

\* the connections that receive one of the emissions of seq
Receivers(seq) == UNION {seq[i].rcpts : i \in DOMAIN seq}

\* this step is the resumption of the handler that awaits op
Resumes(op, event) ==
    /\ op \in inflight
    /\ op.event = event
    /\ op.phase = "saved"
    /\ op \notin inflight'

\* what every resumption of a private_message handler does, whoever is
\* connected: private_message emissions of the saved message only, none of
\* them twice to a connection, all of them logged
PrivateStep(op) ==
    /\ \A i \in DOMAIN emitted' :
          /\ emitted'[i].event = "private_message"
          /\ emitted'[i].payload = PrivatePayload(op.doc)
    /\ \A i, j \in DOMAIN emitted' :
          i # j => emitted'[i].rcpts \cap emitted'[j].rcpts = {}
    /\ delivered' = delivered \o emitted'

\* no emission of a private message has reached a connection other than
\* its sender and its target
NoThirdParty ==
    \A e \in MessagesDelivered :
        e.payload.isPrivate => e.rcpts \subseteq {e.payload.to, e.payload.senderId}

SuppliedRoom(messageData) ==
    IF messageData.room \in {Undefined, Null} THEN "global"
    ELSE messageData.room

\* every public document of the collection was broadcast, or its handler is
\* about to resume
PublicSavedIsBroadcast ==
    \A i \in DOMAIN store :
        ~store[i].isPrivate =>
            \/ \E op \in inflight : op.doc = store[i] /\ op.phase = "saved"
            \/ \E e \in MessagesIn(delivered) :
                  e.event = "receive_message" /\ e.payload.id = store[i]._id

\* C4: a public message that was saved is emitted as one receive_message to
\* all the connections connected when the handler resumes, joined or not,
\* whatever its room; its payload has isPrivate = false and the room that was
\* supplied, "global" when the room was absent or null.
C4_PublicBroadcast ==
    /\ []PublicSavedIsBroadcast
    /\ [][/\ \A op \in inflight : Resumes(op, "send_message") =>
                /\ Len(emitted') = 1
                /\ emitted'[1].event = "receive_message"
                /\ emitted'[1].rcpts = Connected
                /\ emitted'[1].payload.id = op.doc._id
                /\ emitted'[1].payload.isPrivate = FALSE
                /\ emitted'[1].payload.room = op.doc.room
                /\ delivered' = delivered \o emitted'
          /\ \A c \in Conns, messageData \in PublicPayloads, time \in Times :
                SendMessage(c, messageData, time) =>
                    \E op \in inflight' \ inflight :
                        /\ op.doc._id = nextId
                        /\ op.doc.room = SuppliedRoom(messageData)]_vars

\* a message of room "" was broadcast to two connections or more, none of
\* which has joined
C4_Witness ==
    /\ Len(emitted) = 1
    /\ emitted[1].event = "receive_message"
    /\ emitted[1].payload.room = ""
    /\ emitted[1].rcpts = Connected
    /\ Cardinality(Connected) >= 2
    /\ DOMAIN users = {}

\* this step is the disconnect handler of c
Disconnects(c) == sockets[c] = "connected" /\ sockets'[c] = "disconnected"

\* the events of a sequence of emissions
EventsOf(seq) == [i \in DOMAIN seq |-> seq[i].event]

\* C5: when c disconnects, a user_left for c is broadcast if and only if c
\* has an entry in `users`; in every case c is removed from `users` and from
\* `typingUsers`, and then user_list and typing_users are broadcast, in that
\* order and after the user_left, with the lists as they are without c.
C5_Disconnect ==
    [][\A c \in Conns : Disconnects(c) =>
          LET had == c \in DOMAIN users
              lists == IF had THEN Tail(emitted') ELSE emitted'
          IN  /\ c \notin DOMAIN users'
              /\ c \notin DOMAIN typingUsers'
              /\ EventsOf(emitted') =
                    IF had THEN <<"user_left", "user_list", "typing_users">>
                    ELSE <<"user_list", "typing_users">>
              /\ had => emitted'[1].payload =
                           [username |-> users[c].username, id |-> c]
              /\ lists[1].payload = UserList(users')
              /\ \A u \in lists[1].payload : u.id # c
              /\ lists[2].payload = TypingList(typingUsers')
              /\ \A i \in DOMAIN emitted' : emitted'[i].rcpts = Connected']_vars

\* a connection that had joined and was typing has disconnected, and the
\* three broadcasts reached another connection
C5_Witness ==
    /\ EventsOf(emitted) = <<"user_left", "user_list", "typing_users">>
    /\ emitted[1].rcpts # {}
    /\ emitted[1].payload.id \in typed

\* C6: a connection that has disconnected has no entry in `typingUsers`, in
\* this state and, as a socket id is never connected again, in all later
\* ones; so for a connection that had joined and started typing.
C6_NoTypingAfterDisconnect ==
    \A c \in Conns : sockets[c] = "disconnected" => c \notin DOMAIN typingUsers

\* "c1" joined, started typing and disconnected
C6_Witness ==
    /\ sockets["c1"] = "disconnected"
    /\ "c1" \in typed
    /\ \E e \in LeavesIn(delivered) : e.payload.id = "c1"

\* the name a user_join payload gives
NameGiven(payload) ==
    IF payload.isString THEN payload.string ELSE payload.username

\* this step is the user_join handler of c on `payload`: it is the step
\* that announces c under the name the payload gives
Joins(c, payload) ==
    /\ events' = events + 1
    /\ Len(emitted') = 2
    /\ emitted'[2].event = "user_joined"
    /\ emitted'[2].payload = [username |-> NameGiven(payload), id |-> c]

\* C7: a user_join on c leaves exactly one entry for c in `users`, with the
\* name of this join, whatever entry c had, and leaves the entries of the
\* other connections as they were.
C7_JoinOverwrites ==
    [][\A c \in Conns, payload \in JoinPayloads : Joins(c, payload) =>
          /\ DOMAIN users' = DOMAIN users \cup {c}
          /\ users'[c] = [username |-> NameGiven(payload), id |-> c]
          /\ Cardinality({u \in UserList(users') : u.id = c}) = 1
          /\ \A d \in DOMAIN users \ {c} : users'[d] = users[d]]_vars

\* "c1" joined as "Alice", started typing, and has now joined as "Bob"
C7_Witness ==
    /\ "c1" \in DOMAIN typingUsers
    /\ typingUsers["c1"] = "Alice"
    /\ "c1" \in DOMAIN users
    /\ users["c1"].username = "Bob"
    /\ Len(emitted) = 2
    /\ emitted[2].event = "user_joined"
    /\ emitted[2].payload.id = "c1"

\* the number a history request asks for: the default when the limit is not
\* given or is not a number
RequestedLimit(query) ==
    LET parsed == ParseInt(query.limit)
    IN  IF parsed.nan THEN DefaultLimit ELSE parsed.value

\* C8 as stated: whatever room and limit the caller gives, the history route
\* answers with at most min(limit, 200) messages (none for a limit below 1).
C8_AsStated ==
    response.status = 200 =>
        LET most == MathMin(RequestedLimit(response.query), MaxLimit)
        IN  Len(response.body) <= IF most < 0 THEN 0 ELSE most

\* the room the history route reads: "global" when the room is not given or
\* is empty
EffectiveRoom(query) ==
    IF query.room \in {Undefined, ""} THEN "global" ELSE query.room

\* the number of documents the history route asks the cursor for
EffectiveLimit(query) ==
    LET asked == RequestedLimit(query)
    IN  IF asked = 0 THEN DefaultLimit
        ELSE IF asked < 0 THEN -asked
        ELSE MathMin(asked, MaxLimit)

\* the answer `body` holds, oldest first, the `limit` most recently created
\* documents of the collection that are of room `room`
RecentOfRoom(body, room, limit) ==
    LET inRoom == {i \in DOMAIN store : store[i].room = room}
        listed == {body[i]._id : i \in DOMAIN body}
    IN  /\ \A i \in DOMAIN body :
              /\ body[i].room = room
              /\ \E k \in inRoom : store[k] = body[i]
        /\ \A i, j \in DOMAIN body :
              i < j => /\ body[i]._id # body[j]._id
                       /\ body[i].createdAt <= body[j].createdAt
        /\ \A k \in inRoom :
              store[k]._id \notin listed =>
                  \A i \in DOMAIN body : store[k].createdAt <= body[i].createdAt
        /\ Len(body) = MathMin(limit, Cardinality(inRoom))

\* C9 as stated: the answer for room r holds only documents of room r (of
\* "global" when no room is given), the most recent ones, oldest first.
C9_AsStated ==
    response.status = 200 =>
        RecentOfRoom(response.body,
                     IF response.query.room = Undefined THEN "global"
                     ELSE response.query.room,
                     EffectiveLimit(response.query))

\* C9, amended: the answer for a room r that is not empty holds only
\* documents of room r, and the answer for a room that is not given or is
\* empty only documents of room "global": the most recently created ones up
\* to the limit the route asks for (min(limit, 200) for a limit above 0, 50
\* for a limit that is absent, not a number or 0, -limit for one below 0),
\* oldest first by createdAt; it is the empty sequence, with status 200,
\* when the room has no document.
C9_HistoryContents ==
    response.status = 200 =>
        RecentOfRoom(response.body, EffectiveRoom(response.query),
                     EffectiveLimit(response.query))

\* the two most recent of the three "global" documents were asked for, and
\* answered oldest first
C9_Witness ==
    /\ response.status = 200
    /\ Len(store) = 5
    /\ response.query = [room |-> Undefined, limit |-> <<"2">>]
    /\ Len(response.body) = 2
    /\ response.body[1].createdAt < response.body[2].createdAt

\* C10 as stated: for a public message that was broadcast, a later history
\* request for the room of the payload, with a limit that the documents of
\* that room created at or after it do not use up, answers with a document
\* whose _id and createdAt are the id and timestamp of the payload.
C10_AsStated ==
    response.status = 200 =>
        \A e \in MessagesIn(delivered) :
            LET later == {i \in DOMAIN store :
                            /\ store[i].room = e.payload.room
                            /\ store[i]._id # e.payload.id
                            /\ store[i].createdAt >= e.payload.timestamp}
            IN  /\ e.event = "receive_message"
                /\ e.payload.room = response.query.room
                /\ Cardinality(later) <= RequestedLimit(response.query) - 1
                => \E i \in DOMAIN response.body :
                      /\ response.body[i]._id = e.payload.id
                      /\ response.body[i].createdAt = e.payload.timestamp

\* the room arguments a history request can carry: none, or a string; the
\* string "null" is not the value null
QueryRooms == {Undefined, "", "global", "null"}

\* the limits a history request can carry, among them the largest the route
\* lets through
QueryLimits == {NotGiven, <<"1">>, <<"2", "0", "0">>}

\* the history route can answer with the document of id `id`
Retrievable(id) ==
    \E room \in QueryRooms, limit \in QueryLimits :
        \E body \in HistoryBodies(store, [room |-> room, limit |-> limit]) :
            \E i \in DOMAIN body : body[i]._id = id

\* C11 as stated: every message that was delivered to a connection, public
\* or private, is retrievable through the history route: some room argument
\* and some limit make the route answer with its record.
C11_AsStated ==
    \A e \in MessagesDelivered : e.rcpts # {} => Retrievable(e.payload.id)

\* C12 as stated: a send whose text is the empty string, given as such or
\* by default when the payload carries no text, is accepted by the create
\* while the database is reachable: the create awaited for it can resolve
\* with the document inserted.
C12_AsStated ==
    \A op \in inflight :
        op.phase = "awaiting" /\ op.doc.text = "" => ENABLED CreateResolves(op)

\* the creates this step starts: the step is the synchronous part of a
\* send_message or private_message handler
Started == {op \in inflight' \ inflight : op.phase = "awaiting"}

\* C13 as stated: the sender of a message, public or private, is the
\* username of the sending connection's entry in `users` whenever the entry
\* exists, and is "Anonymous" if and only if the connection has no entry
\* when it sends.
C13_AsStated ==
    [][\A op \in Started :
          /\ op.socket \in DOMAIN users =>
                op.doc.sender = users[op.socket].username
          /\ op.doc.sender = "Anonymous" <=> op.socket \notin DOMAIN users]_vars

\* C13, amended: the sender of a message, public or private, is the username
\* of the sending connection's entry in `users` when the entry exists and
\* its username is a string that is not empty; it is "Anonymous" when the
\* connection has no entry or joined with no username or an empty one.
C13_SenderName ==
    [][\A op \in Started :
          op.doc.sender =
              IF /\ op.socket \in DOMAIN users
                 /\ users[op.socket].username \notin {Undefined, Null, ""}
              THEN users[op.socket].username
              ELSE "Anonymous"]_vars

\* a connection that joined with no username has now sent a message, as
\* "Anonymous"
C13_Witness ==
    /\ received.event \in {"send_message", "private_message"}
    /\ received.socket \in DOMAIN users
    /\ users[received.socket].username = Undefined
    /\ \E op \in inflight :
          /\ op.socket = received.socket
          /\ op.phase = "awaiting"
          /\ op.doc.sender = "Anonymous"

\* the positions of `delivered` that carry a message
MessagePositions ==
    {i \in DOMAIN delivered : delivered[i].event \in MessageEvents}

\* the documents of one connection are in the collection, and their payloads
\* among the emissions, in the order the connection sent them: _id values
\* are given in the order the handlers are called
InSendOrder ==
    /\ \A i, j \in DOMAIN store :
          i < j /\ store[i].senderId = store[j].senderId
              => store[i]._id < store[j]._id
    /\ \A i, j \in MessagePositions :
          i < j /\ delivered[i].payload.senderId = delivered[j].payload.senderId
              => delivered[i].payload.id <= delivered[j].payload.id

\* C14 as stated: the effects of one connection's events occur in the order
\* of the events: of two messages of a connection the first is persisted and
\* delivered first, and a message is delivered before its connection's
\* disconnect is handled (user_left and the list rebroadcasts).
C14_AsStated ==
    /\ []InSendOrder
    /\ [][\A op \in inflight :
             Resumes(op, "send_message") \/ Resumes(op, "private_message")
                 => sockets[op.socket] = "connected"]_vars

\* this step is the handler of event `ev` of socket c, up to its first await
Handles(ev, c) == events' = events + 1 /\ received' = On(ev, c)

\* C15: a typing event from a connection with no entry in `users` changes
\* neither `users` nor `typingUsers` and emits nothing; from a connection
\* with an entry it emits one typing_users with the whole list as it is
\* after the event, to all connections, whether or not the list changed.
C15_Typing ==
    [][\A c \in Conns : Handles("typing", c) =>
          /\ users' = users
          /\ IF c \in DOMAIN users
             THEN /\ Len(emitted') = 1
                  /\ emitted'[1].event = "typing_users"
                  /\ emitted'[1].payload = TypingList(typingUsers')
                  /\ emitted'[1].rcpts = Connected
             ELSE /\ typingUsers' = typingUsers
                  /\ emitted' = <<>>
                  /\ delivered' = delivered]_vars

\* a connection that has joined and has never been typing sent typing(false):
\* typingUsers is as it was, and the list was broadcast to two connections
C15_Witness ==
    /\ received.event = "typing"
    /\ received.socket \in DOMAIN users
    /\ received.socket \notin typed
    /\ Len(emitted) = 1
    /\ emitted[1].event = "typing_users"
    /\ Cardinality(emitted[1].rcpts) = 2

\* after a create has failed the server runs, and every other create in
\* flight can still be saved and delivered
OthersGoOn ==
    errors # {} =>
        /\ alive
        /\ \A op \in inflight :
              /\ op.phase = "awaiting" /\ Validates(op.doc)
                    => ENABLED CreateResolves(op)
              /\ op.phase = "saved" /\ op.event = "send_message"
                    => ENABLED SendMessageResume(op)
              /\ op.phase = "saved" /\ op.event = "private_message"
                    => ENABLED PrivateMessageResume(op)

\* C16: no step of a send_message or private_message handler, before or
\* after the create and whether the create succeeds or fails, changes
\* `users` or `typingUsers`; the step that handles a failed create removes
\* that create only and touches neither the collection nor what was
\* delivered, and every other message in flight can still be saved and
\* delivered afterwards.
C16_SendsLeaveRegistries ==
    /\ []OthersGoOn
    /\ [][/\ inflight' # inflight =>
                users' = users /\ typingUsers' = typingUsers
          /\ errors' # errors =>
                /\ \E op \in inflight : inflight' = inflight \ {op}
                /\ store' = store
                /\ delivered' = delivered]_vars

\* a create has failed, a connection is registered, and a message sent
\* after the failed one was saved and delivered
C16_Witness ==
    /\ DOMAIN users # {}
    /\ \E id \in errors, e \in MessagesIn(delivered) :
          /\ e.payload.id > id
          /\ e.rcpts # {}
          /\ \E i \in DOMAIN store : store[i]._id = e.payload.id

\* C17 as stated: every entry of `typingUsers` holds the username that
\* `users` holds now for the same connection, also after the connection has
\* joined, started typing and joined again under another name.
C17_AsStated ==
    \A c \in DOMAIN typingUsers :
        /\ c \in DOMAIN users
        /\ typingUsers[c] = users[c].username

\* the name `users` gives connection c now: "Anonymous" when it gives none
NameNow(c) ==
    IF c \in DOMAIN users /\ users[c].username \notin {Undefined, Null, ""}
    THEN users[c].username
    ELSE "Anonymous"

\* C18: the sender name of a message is the one resolved when the send event
\* is handled, before the create is awaited.  The pending create keeps its
\* document whatever happens meanwhile (the sender joins again, disconnects);
\* the document inserted is that document, and the payload emitted when the
\* handler resumes carries its sender; a public message is then emitted to
\* all the connections connected at that moment.
C18_NameFixedAtSend ==
    [][/\ \A op \in Started : op.doc.sender = NameNow(op.socket)
       /\ \A after \in inflight' \ Started :
             \E op \in inflight :
                op.doc = after.doc /\ op.socket = after.socket
       /\ store' # store =>
             \E op \in inflight :
                op.phase = "awaiting" /\ store' = Append(store, op.doc)
       /\ \A op \in inflight :
             Resumes(op, "send_message") \/ Resumes(op, "private_message") =>
                /\ \A i \in DOMAIN emitted' :
                      /\ emitted'[i].payload.sender = op.doc.sender
                      /\ emitted'[i].payload.id = op.doc._id
                /\ \E i \in DOMAIN store :
                      store[i]._id = op.doc._id /\ store[i].sender = op.doc.sender
                /\ op.event = "send_message" =>
                      Len(emitted') = 1 /\ emitted'[1].rcpts = Connected]_vars

\* a message "Alice" sent was broadcast under that name to another
\* connection after its sender had disconnected
C18_Witness ==
    /\ Len(emitted) = 1
    /\ emitted[1].event = "receive_message"
    /\ emitted[1].payload.sender = "Alice"
    /\ sockets[emitted[1].payload.senderId] = "disconnected"
    /\ emitted[1].rcpts # {}

\* C19: the connections with an entry in `typingUsers` have an entry in
\* `users`, and the connections with an entry in `users` are connected: no
\* entry outlives the disconnect of its connection.
C19_RegistriesWithinConnected ==
    /\ DOMAIN typingUsers \subseteq DOMAIN users
    /\ DOMAIN users \subseteq Connected

\* one connection is typing, two have joined, three are connected
C19_Witness ==
    /\ Cardinality(DOMAIN typingUsers) = 1
    /\ Cardinality(DOMAIN users) = 2
    /\ Cardinality(Connected) = 3

\* the emissions of event `ev` among those of the step
EmissionsOf(ev) == {i \in DOMAIN emitted' : emitted'[i].event = ev}

\* the last user_list broadcast is `users` as it is, the last typing_users
\* broadcast is `typingUsers` as it is
ListsAreCurrent ==
    /\ lastUserList = UserList(users)
    /\ lastTypingList = TypingList(typingUsers)

\* C20: a step that changes `users` broadcasts, in the same step, a user_list
\* with `users` as the step leaves it, and a step that changes `typingUsers`
\* a typing_users with `typingUsers` as the step leaves it; in every state
\* the last user_list broadcast equals the contents of `users` and the last
\* typing_users broadcast those of `typingUsers`, both empty before any
\* broadcast.
C20_ListsFollowRegistries ==
    /\ []ListsAreCurrent
    /\ [][/\ users' # users =>
                \E i \in EmissionsOf("user_list") :
                   /\ emitted'[i].payload = UserList(users')
                   /\ emitted'[i].rcpts = Connected'
          /\ typingUsers' # typingUsers =>
                \E i \in EmissionsOf("typing_users") :
                   /\ emitted'[i].payload = TypingList(typingUsers')
                   /\ emitted'[i].rcpts = Connected']_vars

\* two connections joined and one of them has disconnected: the last list
\* broadcast holds the other one only
C20_Witness ==
    /\ received.event = "disconnect"
    /\ Cardinality(lastUserList) = 1
    /\ \A u \in lastUserList : u.id # received.socket

====
